---- MODULE Spec2Model ----
(***************************************************************************)
(* Model of the iia crate (src/src/lib.rs): free functions that take any   *)
(* IntoIterator, convert it with into_iter() and forward to the Iterator   *)
(* method of the same name.  The adapters the functions return are the     *)
(* core::iter adapters the file imports (lines 23-26); their next() is     *)
(* modelled here step by step, over cursors that may be owned or may be    *)
(* mutable references into the caller's variables.                         *)
(***************************************************************************)
EXTENDS Integers, Sequences, FiniteSets, TLC

VARIABLES
    pc,      \* "start" | "built" | "panicked": the caller's position
    call,    \* the call the caller made: [op, a, b, p]
    st0,     \* the caller's cursors c and d as they were just before the call
    st,      \* the caller's cursors c and d (targets of the &mut arguments)
    it,      \* the adapter returned by the crate's function
    out,     \* the results of the calls made on `it`, in order
    stM,     \* the caller's cursors in the run that calls the Iterator method directly
    itM,     \* the adapter returned by the Iterator method called directly
    outM,    \* the results of the same calls made on `itM`
    drv      \* the calls made on `it` so far: next(), peek() or nth(n)

vars == <<pc, call, st0, st, it, out, stM, itM, outM, drv>>

----------------------------------------------------------------------------
(* Bounds of the model. *)
MaxVal == 2
MaxLen == 3
MaxLenB == 2
MaxInner == 2
MaxCalls == 5
MaxParam == 2

Val == 1..MaxVal

(* Option<T> *)
None == [some |-> FALSE]
Some(v) == [some |-> TRUE, v |-> v]

SeqsUpTo(S, n) == UNION {[1..k -> S] : k \in 0..n}

RECURSIVE Range(_, _)
(* start..end as the list of values it will yield *)
Range(start, end) == IF start >= end THEN <<>> ELSE <<start>> \o Range(start + 1, end)

----------------------------------------------------------------------------
(* Cursors the caller can hand to the crate.  A cursor is the script of the *)
(* answers its next() gives from the front (next_back() from the back):     *)
(* Some(x) for an element, None for an end-of-sequence it reports before it *)
(* is really exhausted (an Iterator that is not fused).  `fused` is whether *)
(* its type implements FusedIterator, `clone` whether it implements Clone.  *)
Cursor(items, fused) == [t |-> "Cur", items |-> items, front |-> 1, back |-> Len(items),
                         fused |-> fused]

(* Remaining scripted answers of a base cursor. *)
Remaining(cur) == SubSeq(cur.items, cur.front, cur.back)

(* next() of a base cursor *)
CurNext(cur) ==
    IF cur.front > cur.back
    THEN [out |-> None, cur |-> cur]
    ELSE [out |-> cur.items[cur.front], cur |-> [cur EXCEPT !.front = @ + 1]]

(* next_back() of a base cursor (DoubleEndedIterator) *)
CurNextBack(cur) ==
    IF cur.front > cur.back
    THEN [out |-> None, cur |-> cur]
    ELSE [out |-> cur.items[cur.back], cur |-> [cur EXCEPT !.back = @ - 1]]

(* A mutable reference to the caller's cursor `name` ("c" or "d"). *)
MutRef(name) == [t |-> "Ref", name |-> name]

(* IntoIterator::into_iter for the three kinds of source the crate's       *)
(* documentation names: a container (here an array), an iterator, and a    *)
(* mutable reference to an iterator.  An array becomes a fresh fused       *)
(* cursor over its elements; an Iterator (which &mut I is, too) is         *)
(* returned as it is.                                                      *)
into_iter(src) ==
    CASE src.kind = "array"  -> Cursor([i \in 1..Len(src.items) |-> Some(src.items[i])], TRUE)
      [] src.kind = "cursor" -> src.cur
      [] src.kind = "mutref" -> MutRef(src.name)

(* Iterator::by_ref: a mutable reference to the caller's cursor. *)
by_ref(name) == MutRef(name)

----------------------------------------------------------------------------
(* The closures the caller passes.  They are passed through unmodified and *)
(* called by the adapters.                                                 *)

(* F: FnMut(Item) -> B for map: x -> x + k; for flat_map, F: FnMut(Item) -> U *)
(* with U an array: two elements for an x in f.set, none otherwise           *)
CallMapF(f, x) ==
    CASE f.fn = "add" -> x + f.k
      [] f.fn = "rep" -> IF x \in f.set THEN <<x, x + 10>> ELSE <<>>

(* P: FnMut(&Item) -> bool for filter, skip_while, take_while: x in f.set *)
CallPred(f, x) == x \in f.set

(* F: FnMut(Item) -> Option<B> for filter_map, map_while *)
CallOptF(f, x) == IF x \in f.set THEN Some(x + 10) ELSE None

(* F: FnMut(&mut St, Item) -> Option<B> for scan: a running sum that gives *)
(* up above f.cap.  The state is updated whatever is returned.             *)
CallScanF(f, state, x) ==
    [state |-> state + x, ret |-> IF state + x > f.cap THEN None ELSE Some(state + x)]

(* F: FnMut(&Item) for inspect: the closure records what it saw *)
CallInspectF(f, x) == [f EXCEPT !.seen = Append(@, x)]

----------------------------------------------------------------------------
(* The Iterator methods the crate forwards to: each builds its adapter     *)
(* around the iterator it is given and consumes nothing.                   *)

Panic == [t |-> "Panic"]

(* Iterator::step_by: asserts step != 0, stores step - 1 *)
Iterator_step_by(iter, step) ==
    IF step = 0 THEN Panic
    ELSE [t |-> "StepBy", iter |-> iter, step |-> step - 1, first_take |-> TRUE]

(* Iterator::chain: other.into_iter() is called by the method *)
Iterator_chain(iter, other) ==
    [t |-> "Chain", a |-> Some(iter), b |-> Some(into_iter(other))]

(* Iterator::zip *)
Iterator_zip(iter, other) == [t |-> "Zip", a |-> iter, b |-> into_iter(other)]

Iterator_map(iter, f) == [t |-> "Map", iter |-> iter, f |-> f]

Iterator_filter(iter, predicate) == [t |-> "Filter", iter |-> iter, predicate |-> predicate]

Iterator_filter_map(iter, f) == [t |-> "FilterMap", iter |-> iter, f |-> f]

Iterator_enumerate(iter) == [t |-> "Enumerate", iter |-> iter, count |-> 0]

Iterator_peekable(iter) == [t |-> "Peekable", iter |-> iter, peeked |-> None]

Iterator_skip_while(iter, predicate) ==
    [t |-> "SkipWhile", iter |-> iter, flag |-> FALSE, predicate |-> predicate]

Iterator_take_while(iter, predicate) ==
    [t |-> "TakeWhile", iter |-> iter, flag |-> FALSE, predicate |-> predicate]

Iterator_map_while(iter, predicate) == [t |-> "MapWhile", iter |-> iter, predicate |-> predicate]

Iterator_skip(iter, n) == [t |-> "Skip", iter |-> iter, n |-> n]

Iterator_take(iter, n) == [t |-> "Take", iter |-> iter, n |-> n]

Iterator_scan(iter, initial_state, f) ==
    [t |-> "Scan", iter |-> iter, state |-> initial_state, f |-> f]

Iterator_fuse(iter) == [t |-> "Fuse", iter |-> Some(iter)]

(* FlattenCompat::new: the outer iterator is fused, no inner iterator yet *)
FlattenCompat_new(iter) ==
    [t |-> "Flatten", iter |-> Iterator_fuse(iter), frontiter |-> None, backiter |-> None]

(* Iterator::flat_map: FlatMap wraps FlattenCompat over Map *)
Iterator_flat_map(iter, f) == FlattenCompat_new(Iterator_map(iter, f))

Iterator_flatten(iter) == FlattenCompat_new(iter)

Iterator_inspect(iter, f) == [t |-> "Inspect", iter |-> iter, f |-> f]

Iterator_rev(iter) == [t |-> "Rev", iter |-> iter]

Iterator_copied(iter) == [t |-> "Copied", iter |-> iter]

Iterator_cloned(iter) == [t |-> "Cloned", iter |-> iter]

(* Iterator::cycle: keeps a clone of the iterator as it is now *)
Iterator_cycle(iter) == [t |-> "Cycle", orig |-> iter, iter |-> iter]

----------------------------------------------------------------------------
(* next() of every iterator of the model.  Each returns the Option it       *)
(* yields, the iterator after the call and the caller's cursors after it.   *)

Ret(o, i, s) == [out |-> o, it |-> i, st |-> s]

(* Whether the iterator's type implements FusedIterator (Fuse specialises   *)
(* on it).  Map<I, F> and &mut I are fused when I is.                       *)
RECURSIVE IsFused(_, _)
IsFused(i, s) ==
    CASE i.t = "Cur" -> i.fused
      [] i.t = "Ref" -> s[i.name].fused
      [] i.t = "Map" -> IsFused(i.iter, s)
      [] OTHER -> FALSE

RECURSIVE IterNext(_, _)
RECURSIVE advance_by(_, _, _)
RECURSIVE find(_, _, _)
RECURSIVE FlattenCompat_next(_, _)

(* Iterator::advance_by (default): next() n times, stopping at the first    *)
(* None; rem is the number of steps not taken.                              *)
advance_by(i, s, n) ==
    IF n = 0 THEN [rem |-> 0, it |-> i, st |-> s]
    ELSE LET r == IterNext(i, s)
         IN  IF r.out.some THEN advance_by(r.it, r.st, n - 1)
             ELSE [rem |-> n, it |-> r.it, st |-> r.st]

(* Iterator::nth (default): advance_by(n)?, then next() *)
nth(i, s, n) ==
    LET a == advance_by(i, s, n)
    IN  IF a.rem = 0 THEN IterNext(a.it, a.st) ELSE Ret(None, a.it, a.st)

(* Iterator::find / find_map on the inner iterator `i` of adapter `w`:      *)
(* next() until None or until the adapter's test accepts the element.       *)
(* Returns the accepted (mapped) element and the updated adapter.           *)
find(w, i, s) ==
    LET r == IterNext(i, s)
    IN  IF ~r.out.some THEN Ret(None, [w EXCEPT !.iter = r.it], r.st)
        ELSE CASE w.t = "Filter" ->
                    IF CallPred(w.predicate, r.out.v)
                    THEN Ret(r.out, [w EXCEPT !.iter = r.it], r.st)
                    ELSE find(w, r.it, r.st)
               [] w.t = "FilterMap" ->
                    LET m == CallOptF(w.f, r.out.v)
                    IN  IF m.some THEN Ret(m, [w EXCEPT !.iter = r.it], r.st)
                        ELSE find(w, r.it, r.st)
               [] w.t = "SkipWhile" ->
                    IF w.flag \/ ~CallPred(w.predicate, r.out.v)
                    THEN Ret(r.out, [w EXCEPT !.iter = r.it, !.flag = TRUE], r.st)
                    ELSE find(w, r.it, r.st)

(* StepBy::next: nth(0) the first time, nth(step - 1) afterwards *)
StepBy_next(i, s) ==
    LET step_size == IF i.first_take THEN 0 ELSE i.step
        r == nth(i.iter, s, step_size)
    IN  Ret(r.out, [i EXCEPT !.iter = r.it, !.first_take = FALSE], r.st)

(* Chain::next: a until it answers None (a is then dropped), then b *)
Chain_next(i, s) ==
    LET ra == IterNext(i.a.v, s)
    IN  IF i.a.some /\ ra.out.some
        THEN Ret(ra.out, [i EXCEPT !.a = Some(ra.it)], ra.st)
        ELSE LET s1 == IF i.a.some THEN ra.st ELSE s
                 i1 == [i EXCEPT !.a = None]
             IN  IF ~i.b.some THEN Ret(None, i1, s1)
                 ELSE LET rb == IterNext(i.b.v, s1)
                      IN  Ret(rb.out, [i1 EXCEPT !.b = Some(rb.it)], rb.st)

(* Chain::nth: advance a by n; what a could not supply is asked of b *)
Chain_nth(i, s, n) ==
    LET aa == advance_by(i.a.v, s, n)
        ra == IterNext(aa.it, aa.st)
    IN  IF i.a.some /\ aa.rem = 0 /\ ra.out.some
        THEN Ret(ra.out, [i EXCEPT !.a = Some(ra.it)], ra.st)
        ELSE LET n1 == IF ~i.a.some THEN n ELSE aa.rem
                 s1 == IF ~i.a.some THEN s ELSE IF aa.rem = 0 THEN ra.st ELSE aa.st
                 i1 == [i EXCEPT !.a = None]
             IN  IF ~i.b.some THEN Ret(None, i1, s1)
                 ELSE LET rb == nth(i.b.v, s1, n1)
                      IN  Ret(rb.out, [i1 EXCEPT !.b = Some(rb.it)], rb.st)

(* Zip::next: a.next()?, then b.next()? *)
Zip_next(i, s) ==
    LET ra == IterNext(i.a, s)
    IN  IF ~ra.out.some THEN Ret(None, [i EXCEPT !.a = ra.it], ra.st)
        ELSE LET rb == IterNext(i.b, ra.st)
                 i1 == [i EXCEPT !.a = ra.it, !.b = rb.it]
             IN  IF ~rb.out.some THEN Ret(None, i1, rb.st)
                 ELSE Ret(Some(<<ra.out.v, rb.out.v>>), i1, rb.st)

(* Map::next *)
Map_next(i, s) ==
    LET r == IterNext(i.iter, s)
    IN  Ret(IF r.out.some THEN Some(CallMapF(i.f, r.out.v)) ELSE None,
            [i EXCEPT !.iter = r.it], r.st)

(* Enumerate::next: iter.next()?, paired with the count, which then grows *)
Enumerate_next(i, s) ==
    LET r == IterNext(i.iter, s)
    IN  IF ~r.out.some THEN Ret(None, [i EXCEPT !.iter = r.it], r.st)
        ELSE Ret(Some(<<i.count, r.out.v>>),
                 [i EXCEPT !.iter = r.it, !.count = @ + 1], r.st)

(* Peekable::next: the peeked answer if there is one, else iter.next() *)
Peekable_next(i, s) ==
    IF i.peeked.some THEN Ret(i.peeked.v, [i EXCEPT !.peeked = None], s)
    ELSE LET r == IterNext(i.iter, s)
         IN  Ret(r.out, [i EXCEPT !.iter = r.it], r.st)

(* Peekable::peek: fills `peeked` from iter.next() if it is empty *)
Peekable_peek(i, s) ==
    IF i.peeked.some THEN Ret(i.peeked.v, i, s)
    ELSE LET r == IterNext(i.iter, s)
         IN  Ret(r.out, [i EXCEPT !.iter = r.it, !.peeked = Some(r.out)], r.st)

(* TakeWhile::next: None once the flag is set; the element that fails the   *)
(* predicate is consumed, sets the flag and is not yielded                  *)
TakeWhile_next(i, s) ==
    IF i.flag THEN Ret(None, i, s)
    ELSE LET r == IterNext(i.iter, s)
             i1 == [i EXCEPT !.iter = r.it]
         IN  IF ~r.out.some THEN Ret(None, i1, r.st)
             ELSE IF CallPred(i.predicate, r.out.v) THEN Ret(r.out, i1, r.st)
             ELSE Ret(None, [i1 EXCEPT !.flag = TRUE], r.st)

(* MapWhile::next: iter.next()?, then whatever the closure returns; the     *)
(* adapter keeps no flag                                                    *)
MapWhile_next(i, s) ==
    LET r == IterNext(i.iter, s)
    IN  Ret(IF r.out.some THEN CallOptF(i.predicate, r.out.v) ELSE None,
            [i EXCEPT !.iter = r.it], r.st)

(* Skip::next: the first call is iter.nth(n), with n taken (left at 0) *)
Skip_next(i, s) ==
    LET r == IF i.n > 0 THEN nth(i.iter, s, i.n) ELSE IterNext(i.iter, s)
    IN  Ret(r.out, [i EXCEPT !.iter = r.it, !.n = 0], r.st)

(* Take::next: None without touching iter once n is 0 *)
Take_next(i, s) ==
    IF i.n = 0 THEN Ret(None, i, s)
    ELSE LET r == IterNext(i.iter, s)
         IN  Ret(r.out, [i EXCEPT !.iter = r.it, !.n = @ - 1], r.st)

(* Scan::next: iter.next()?, then f(&mut state, a) *)
Scan_next(i, s) ==
    LET r == IterNext(i.iter, s)
        c == CallScanF(i.f, i.state, r.out.v)
    IN  IF ~r.out.some THEN Ret(None, [i EXCEPT !.iter = r.it], r.st)
        ELSE Ret(c.ret, [i EXCEPT !.iter = r.it, !.state = c.state], r.st)

(* Fuse::next.  In general the inner iterator is dropped at its first None; *)
(* for a FusedIterator the inner iterator is kept and asked every time.     *)
Fuse_next(i, s) ==
    IF ~i.iter.some THEN Ret(None, i, s)
    ELSE LET r == IterNext(i.iter.v, s)
         IN  IF IsFused(i.iter.v, s) \/ r.out.some
             THEN Ret(r.out, [i EXCEPT !.iter = Some(r.it)], r.st)
             ELSE Ret(None, [i EXCEPT !.iter = None], r.st)

(* FlattenCompat::next: the front inner iterator until it ends, then the    *)
(* next inner iterator of the (fused) outer one; None when that ends        *)
FlattenCompat_next(i, s) ==
    LET rf == CurNext(i.frontiter.v)
    IN  IF i.frontiter.some /\ rf.out.some
        THEN Ret(rf.out, [i EXCEPT !.frontiter = Some(rf.cur)], s)
        ELSE LET r == Fuse_next(i.iter, s)
                 i1 == [i EXCEPT !.frontiter = None, !.iter = r.it]
             IN  IF ~r.out.some THEN Ret(None, i1, r.st)
                 ELSE FlattenCompat_next(
                        [i1 EXCEPT !.frontiter =
                            Some(into_iter([kind |-> "array", items |-> r.out.v]))],
                        r.st)

(* Inspect::next: the closure sees every element, which passes unchanged *)
Inspect_next(i, s) ==
    LET r == IterNext(i.iter, s)
    IN  Ret(r.out,
            [i EXCEPT !.iter = r.it,
                      !.f = IF r.out.some THEN CallInspectF(@, r.out.v) ELSE @],
            r.st)

(* Rev::next is next_back() of the inner iterator (a cursor, or a mutable   *)
(* reference to one)                                                        *)
Rev_next(i, s) ==
    CASE i.iter.t = "Cur" ->
            LET r == CurNextBack(i.iter) IN Ret(r.out, [i EXCEPT !.iter = r.cur], s)
      [] i.iter.t = "Ref" ->
            LET r == CurNextBack(s[i.iter.name])
            IN  Ret(r.out, i, [s EXCEPT ![i.iter.name] = r.cur])

(* Copied::next / Cloned::next: the element behind the reference yielded *)
Copied_next(i, s) ==
    LET r == IterNext(i.iter, s)
    IN  Ret(IF r.out.some THEN Some(r.out.v.deref) ELSE None, [i EXCEPT !.iter = r.it], r.st)

(* Cycle::next: at None the iterator is replaced by a clone of the original *)
(* and asked once more                                                      *)
Cycle_next(i, s) ==
    LET r == IterNext(i.iter, s)
    IN  IF r.out.some THEN Ret(r.out, [i EXCEPT !.iter = r.it], r.st)
        ELSE LET r2 == IterNext(i.orig, r.st)
             IN  Ret(r2.out, [i EXCEPT !.iter = r2.it], r2.st)

IterNext(i, s) ==
    CASE i.t = "Cur" -> LET r == CurNext(i) IN Ret(r.out, r.cur, s)
      [] i.t = "Ref" -> LET r == CurNext(s[i.name])
                        IN  Ret(r.out, i, [s EXCEPT ![i.name] = r.cur])
      [] i.t = "StepBy" -> StepBy_next(i, s)
      [] i.t = "Chain" -> Chain_next(i, s)
      [] i.t = "Zip" -> Zip_next(i, s)
      [] i.t = "Map" -> Map_next(i, s)
      [] i.t \in {"Filter", "FilterMap", "SkipWhile"} -> find(i, i.iter, s)
      [] i.t = "Enumerate" -> Enumerate_next(i, s)
      [] i.t = "Peekable" -> Peekable_next(i, s)
      [] i.t = "TakeWhile" -> TakeWhile_next(i, s)
      [] i.t = "MapWhile" -> MapWhile_next(i, s)
      [] i.t = "Skip" -> Skip_next(i, s)
      [] i.t = "Take" -> Take_next(i, s)
      [] i.t = "Scan" -> Scan_next(i, s)
      [] i.t = "Fuse" -> Fuse_next(i, s)
      [] i.t = "Flatten" -> FlattenCompat_next(i, s)
      [] i.t = "Inspect" -> Inspect_next(i, s)
      [] i.t = "Rev" -> Rev_next(i, s)
      [] i.t \in {"Copied", "Cloned"} -> Copied_next(i, s)
      [] i.t = "Cycle" -> Cycle_next(i, s)

----------------------------------------------------------------------------
(* The crate's functions (src/src/lib.rs).  Each converts its argument with *)
(* into_iter() and forwards to the Iterator method.  `s` is the caller's    *)
(* cursors, which a function holding a mutable reference could advance;     *)
(* the result is the adapter and the cursors as the call leaves them.       *)

Built(i, s) == [it |-> i, st |-> s]

(* Faulty variant of step_by: hands on the step it was given plus one *)
step_by_off_by_one(iter, step, s) ==
    Built(Iterator_step_by(into_iter(iter), step + 1), s)

step_by(iter, step, s) == Built(Iterator_step_by(into_iter(iter), step), s)

(* Faulty variant of chain: the two arguments exchanged *)
chain_swapped(a, b, s) == Built(Iterator_chain(into_iter(b), a), s)

chain(a, b, s) == Built(Iterator_chain(into_iter(a), b), s)

(* Faulty variant of zip: the two arguments exchanged *)
zip_swapped(a, b, s) == Built(Iterator_zip(into_iter(b), a), s)

zip(a, b, s) == Built(Iterator_zip(into_iter(a), b), s)

map(iter, f, s) == Built(Iterator_map(into_iter(iter), f), s)

filter(iter, predicate, s) == Built(Iterator_filter(into_iter(iter), predicate), s)

filter_map(iter, f, s) == Built(Iterator_filter_map(into_iter(iter), f), s)

enumerate(iter, s) == Built(Iterator_enumerate(into_iter(iter)), s)

peekable(iter, s) == Built(Iterator_peekable(into_iter(iter)), s)

skip_while(iter, predicate, s) == Built(Iterator_skip_while(into_iter(iter), predicate), s)

(* Faulty variant of take_while: forwards to skip_while, its neighbour *)
take_while_as_skip_while(iter, predicate, s) ==
    Built(Iterator_skip_while(into_iter(iter), predicate), s)

take_while(iter, predicate, s) == Built(Iterator_take_while(into_iter(iter), predicate), s)

(* Faulty variant of map_while: forwards to filter_map *)
map_while_as_filter_map(iter, predicate, s) ==
    Built(Iterator_filter_map(into_iter(iter), predicate), s)

map_while(iter, predicate, s) == Built(Iterator_map_while(into_iter(iter), predicate), s)

(* Faulty variant of skip: skips when called instead of when first driven *)
skip_eager(iter, n, s) ==
    LET a == advance_by(into_iter(iter), s, n) IN Built(Iterator_skip(a.it, 0), a.st)

skip(iter, n, s) == Built(Iterator_skip(into_iter(iter), n), s)

(* Faulty variant of take: works on a copy of the cursor behind a mutable   *)
(* reference instead of on the caller's cursor                              *)
take_of_copy(iter, n, s) ==
    Built(Iterator_take(IF iter.kind = "mutref" THEN iter.cur ELSE into_iter(iter), n), s)

take(iter, n, s) == Built(Iterator_take(into_iter(iter), n), s)

scan(iter, initial_state, f, s) == Built(Iterator_scan(into_iter(iter), initial_state, f), s)

flat_map(iter, f, s) == Built(Iterator_flat_map(into_iter(iter), f), s)

flatten(iter, s) == Built(Iterator_flatten(into_iter(iter)), s)

(* Faulty variant of fuse: converts the source and forgets to fuse it *)
fuse_forgotten(iter, s) == Built(into_iter(iter), s)

fuse(iter, s) == Built(Iterator_fuse(into_iter(iter)), s)

inspect(iter, f, s) == Built(Iterator_inspect(into_iter(iter), f), s)

(* Faulty variant of rev: converts the source and forgets to reverse it *)
rev_forgotten(iter, s) == Built(into_iter(iter), s)

rev(iter, s) == Built(Iterator_rev(into_iter(iter)), s)

copied(iter, s) == Built(Iterator_copied(into_iter(iter)), s)

cloned(iter, s) == Built(Iterator_cloned(into_iter(iter)), s)

(* Faulty variant of cycle: converts the source and forgets to cycle it *)
cycle_forgotten(iter, s) == Built(into_iter(iter), s)

cycle(iter, s) == Built(Iterator_cycle(into_iter(iter)), s)

(* The call `c` made through the crate. "rev_enumerate" is the crate        *)
(* documentation's rev(..).enumerate().                                     *)
CrateCall(c, s) ==
    CASE c.op = "step_by" -> step_by(c.a, c.p.step, s)
      [] c.op = "chain" -> chain(c.a, c.b, s)
      [] c.op = "zip" -> zip(c.a, c.b, s)
      [] c.op = "map" -> map(c.a, c.p.f, s)
      [] c.op = "filter" -> filter(c.a, c.p.f, s)
      [] c.op = "filter_map" -> filter_map(c.a, c.p.f, s)
      [] c.op = "enumerate" -> enumerate(c.a, s)
      [] c.op = "peekable" -> peekable(c.a, s)
      [] c.op = "skip_while" -> skip_while(c.a, c.p.f, s)
      [] c.op = "take_while" -> take_while(c.a, c.p.f, s)
      [] c.op = "map_while" -> map_while(c.a, c.p.f, s)
      [] c.op = "skip" -> skip(c.a, c.p.n, s)
      [] c.op = "take" -> take(c.a, c.p.n, s)
      [] c.op = "scan" -> scan(c.a, c.p.init, c.p.f, s)
      [] c.op = "flat_map" -> flat_map(c.a, c.p.f, s)
      [] c.op = "flatten" -> flatten(c.a, s)
      [] c.op = "fuse" -> fuse(c.a, s)
      [] c.op = "inspect" -> inspect(c.a, c.p.f, s)
      [] c.op = "rev" -> rev(c.a, s)
      [] c.op = "copied" -> copied(c.a, s)
      [] c.op = "cloned" -> cloned(c.a, s)
      [] c.op = "cycle" -> cycle(c.a, s)
      [] c.op = "rev_enumerate" ->
            LET r == rev(c.a, s) IN Built(Iterator_enumerate(r.it), r.st)

(* The same call made without the crate: the Iterator method called on      *)
(* source.into_iter() for an owned source, on cursor.by_ref() for a         *)
(* mutable reference.                                                       *)
DirectCall(c, s) ==
    LET i == IF c.a.kind = "mutref" THEN by_ref(c.a.name) ELSE into_iter(c.a)
    IN  Built(CASE c.op = "step_by" -> Iterator_step_by(i, c.p.step)
                [] c.op = "chain" -> Iterator_chain(i, c.b)
                [] c.op = "zip" -> Iterator_zip(i, c.b)
                [] c.op = "map" -> Iterator_map(i, c.p.f)
                [] c.op = "filter" -> Iterator_filter(i, c.p.f)
                [] c.op = "filter_map" -> Iterator_filter_map(i, c.p.f)
                [] c.op = "enumerate" -> Iterator_enumerate(i)
                [] c.op = "peekable" -> Iterator_peekable(i)
                [] c.op = "skip_while" -> Iterator_skip_while(i, c.p.f)
                [] c.op = "take_while" -> Iterator_take_while(i, c.p.f)
                [] c.op = "map_while" -> Iterator_map_while(i, c.p.f)
                [] c.op = "skip" -> Iterator_skip(i, c.p.n)
                [] c.op = "take" -> Iterator_take(i, c.p.n)
                [] c.op = "scan" -> Iterator_scan(i, c.p.init, c.p.f)
                [] c.op = "flat_map" -> Iterator_flat_map(i, c.p.f)
                [] c.op = "flatten" -> Iterator_flatten(i)
                [] c.op = "fuse" -> Iterator_fuse(i)
                [] c.op = "inspect" -> Iterator_inspect(i, c.p.f)
                [] c.op = "rev" -> Iterator_rev(i)
                [] c.op = "copied" -> Iterator_copied(i)
                [] c.op = "cloned" -> Iterator_cloned(i)
                [] c.op = "cycle" -> Iterator_cycle(i)
                [] c.op = "rev_enumerate" -> Iterator_enumerate(Iterator_rev(i)),
              s)

----------------------------------------------------------------------------
(* The sources and parameters the caller chooses from. *)

ArraySrc(xs) == [kind |-> "array", items |-> xs]
CursorSrc(cur) == [kind |-> "cursor", cur |-> cur]
MutRefSrc(name, cur) == [kind |-> "mutref", name |-> name, cur |-> cur]
NoSrc == [kind |-> "none"]
NoParam == [none |-> TRUE]

(* Cursors over elements of S with at most n scripted answers; a type that  *)
(* implements FusedIterator never answers None before it is exhausted.      *)
Cursors(S, n) ==
    {Cursor(q[1], q[2]) :
        q \in {q \in SeqsUpTo({Some(v) : v \in S} \cup {None}, n) \X BOOLEAN :
                 q[2] => \A k \in 1..Len(q[1]) : q[1][k].some}}

Sources(S, n, name) ==
    {ArraySrc(xs) : xs \in SeqsUpTo(S, n)}
      \cup {CursorSrc(cur) : cur \in Cursors(S, n)}
      \cup {MutRefSrc(name, cur) : cur \in Cursors(S, n)}

(* The sources whose type implements FusedIterator *)
FusedSources(S, n, name) ==
    {src \in Sources(S, n, name) : src.kind # "array" => src.cur.fused}

(* Elements that are themselves IntoIterator (for flatten): arrays 1..k *)
InnerArrays == {Range(1, k + 1) : k \in 0..MaxInner}

(* Elements that are references (for copied and cloned) *)
Refs == {[deref |-> v] : v \in Val}

Preds(fn) == {[f |-> [fn |-> fn, set |-> P]] : P \in SUBSET Val}

Params(op) ==
    CASE op = "step_by" -> {[step |-> k] : k \in 0..MaxParam}
      [] op \in {"skip", "take"} -> {[n |-> k] : k \in 0..MaxParam}
      [] op = "map" -> {[f |-> [fn |-> "add", k |-> 1]]}
      [] op \in {"filter", "skip_while", "take_while"} -> Preds("in")
      [] op \in {"filter_map", "map_while"} -> Preds("opt")
      [] op = "flat_map" -> Preds("rep")
      [] op = "scan" -> {[init |-> 0, f |-> [fn |-> "sum", cap |-> k]] : k \in 1..MaxParam}
      [] op = "inspect" -> {[f |-> [fn |-> "log", seen |-> <<>>]]}
      [] OTHER -> {NoParam}

UnaryOps == {"step_by", "map", "filter", "filter_map", "enumerate", "peekable",
             "skip_while", "take_while", "map_while", "skip", "take", "scan",
             "flat_map", "fuse", "inspect", "rev", "cycle", "rev_enumerate"}

(* Cycle needs I::IntoIter: Clone, which a mutable reference is not. *)
Accepts(op, a) == op = "cycle" => a.kind # "mutref"

Call(op, a, b, p) == [op |-> op, a |-> a, b |-> b, p |-> p]

(* The calls of the crate documentation and of the specification's examples *)
DocCalls ==
    { Call("chain", ArraySrc(<<1, 2, 3>>),
           MutRefSrc("d", Cursor([k \in 1..10 |-> Some(k - 1)], TRUE)), NoParam),
      Call("rev_enumerate", ArraySrc(<<1, 2, 3>>), NoSrc, NoParam),
      Call("zip", ArraySrc(<<1, 2, 3>>), ArraySrc(<<4, 5>>), NoParam),
      Call("step_by", ArraySrc(<<0, 1, 2, 3, 4, 5>>), NoSrc, [step |-> 2]),
      Call("cycle", ArraySrc(<<1, 2>>), NoSrc, NoParam) }

Idle == Cursor(<<>>, TRUE)

(* The caller's cursors c and d: the targets of the mutable references *)
Store(c) == [c |-> IF c.a.kind = "mutref" THEN c.a.cur ELSE Idle,
             d |-> IF c.b.kind = "mutref" THEN c.b.cur ELSE Idle]

----------------------------------------------------------------------------
Init ==
    /\ pc = "start"
    /\ call = [op |-> "none"]
    /\ st0 = [c |-> Idle, d |-> Idle]
    /\ st = st0
    /\ stM = st0
    /\ it = [t |-> "None"]
    /\ itM = [t |-> "None"]
    /\ out = <<>>
    /\ outM = <<>>
    /\ drv = <<>>

(* The caller calls the crate's function (and, in the twin run, the method) *)
Construct(c) ==
    LET r == CrateCall(c, Store(c))
        m == DirectCall(c, Store(c))
    IN  /\ call' = c
        /\ st0' = Store(c)
        /\ it' = r.it
        /\ st' = r.st
        /\ itM' = m.it
        /\ stM' = m.st
        /\ pc' = IF r.it.t = "Panic" \/ m.it.t = "Panic" THEN "panicked" ELSE "built"
        /\ UNCHANGED <<out, outM, drv>>

ConstructUnary ==
    /\ pc = "start"
    /\ \E op \in UnaryOps : \E a \in Sources(Val, MaxLen, "c") : \E p \in Params(op) :
        Accepts(op, a) /\ Construct(Call(op, a, NoSrc, p))

(* The second argument is drawn from the well-behaved sources only *)
ConstructBinary ==
    /\ pc = "start"
    /\ \E op \in {"chain", "zip"} :
        \E a \in Sources(Val, MaxLenB, "c") : \E b \in FusedSources(Val, MaxLenB, "d") :
            Construct(Call(op, a, b, NoParam))

ConstructFlatten ==
    /\ pc = "start"
    /\ \E a \in Sources(InnerArrays, MaxLen, "c") : Construct(Call("flatten", a, NoSrc, NoParam))

ConstructDeref ==
    /\ pc = "start"
    /\ \E op \in {"copied", "cloned"} : \E a \in Sources(Refs, MaxLen, "c") :
        Construct(Call(op, a, NoSrc, NoParam))

ConstructDoc == pc = "start" /\ \E c \in DocCalls : Construct(c)

(* The caller drives the adapter: one call, its result recorded *)
Drive(d, r, m) ==
    /\ it' = r.it
    /\ st' = r.st
    /\ out' = Append(out, r.out)
    /\ itM' = m.it
    /\ stM' = m.st
    /\ outM' = Append(outM, m.out)
    /\ drv' = Append(drv, d)
    /\ UNCHANGED <<pc, call, st0>>

CallNext ==
    /\ pc = "built"
    /\ Len(drv) < MaxCalls
    /\ Drive([call |-> "next"], IterNext(it, st), IterNext(itM, stM))

CallPeek ==
    /\ pc = "built"
    /\ Len(drv) < MaxCalls
    /\ call.op = "peekable"
    /\ Drive([call |-> "peek"], Peekable_peek(it, st), Peekable_peek(itM, stM))

(* nth as the first call on a chain (the crate documentation's iter.nth(5)) *)
CallNth ==
    /\ pc = "built"
    /\ drv = <<>>
    /\ call.op = "chain"
    /\ \E n \in 0..MaxParam \cup (IF call \in DocCalls THEN {5} ELSE {}) :
          Drive([call |-> "nth", n |-> n], Chain_nth(it, st, n), Chain_nth(itM, stM, n))

Next ==
    \/ ConstructUnary
    \/ ConstructBinary
    \/ ConstructFlatten
    \/ ConstructDeref
    \/ ConstructDoc
    \/ CallNext
    \/ CallPeek
    \/ CallNth

Spec == Init /\ [][Next]_vars

----------------------------------------------------------------------------
(* Vocabulary of the properties. *)

(* The scripted answers of the source as it was handed over *)
Script(src) ==
    CASE src.kind = "array" -> [k \in 1..Len(src.items) |-> Some(src.items[k])]
      [] src.kind \in {"cursor", "mutref"} -> src.cur.items
      [] OTHER -> <<>>

(* A finite sequence of elements: it answers None only once exhausted *)
Finite(src) == \A k \in 1..Len(Script(src)) : Script(src)[k].some

Owned(src) == src.kind \in {"array", "cursor"}

Built_ == pc = "built"

(* Number of elements requested so far: one per next(), n + 1 per nth(n) *)
RECURSIVE PulledOf(_)
PulledOf(ds) ==
    IF ds = <<>> THEN 0
    ELSE (IF Head(ds).call = "nth" THEN Head(ds).n + 1 ELSE 1) + PulledOf(Tail(ds))
Pulled == PulledOf(drv)

Min(x, y) == IF x < y THEN x ELSE y
Max(x, y) == IF x > y THEN x ELSE y

(* How far the caller's cursor `name` has been advanced from the front *)
Advanced(name) == st[name].front - st0[name].front

(* Position of the first scripted None, or one past the end *)
FirstNone(xs) ==
    IF \E k \in 1..Len(xs) : ~xs[k].some
    THEN CHOOSE k \in 1..Len(xs) : ~xs[k].some /\ \A j \in 1..(k - 1) : xs[j].some
    ELSE Len(xs) + 1

----------------------------------------------------------------------------
(* C1: for every operation and every owned source, the results produced by *)
(* the crate's function are, call for call, the results produced by the    *)
(* Iterator method called on source.into_iter(): same values, same order,  *)
(* same end; and the function panics (step_by with step 0) exactly when    *)
(* the method does.                                                        *)
C1_OwnedSameAsMethod ==
    (pc # "start" /\ Owned(call.a)) =>
        /\ out = outM
        /\ (it.t = "Panic") = (itM.t = "Panic")

C1_Witness ==
    /\ Built_ /\ call.op = "filter" /\ call.a.kind = "array"
    /\ call.a.items = <<1, 2, 1>> /\ call.p.f.set = {1}
    /\ out = <<Some(1), Some(1), None>>

(* C2: for every operation given a mutable reference to the caller's        *)
(* cursor, after any number of calls on the adapter the caller's cursors    *)
(* are exactly as they are after the same calls on cursor.by_ref().op(..):  *)
(* the same elements remain, and they remain in the caller's cursor.        *)
C2_MutRefSameAsByRef ==
    (Built_ /\ call.a.kind = "mutref") =>
        /\ st = stM
        /\ out = outM
        /\ Remaining(st.c) = Remaining(stM.c)

C2_Witness ==
    /\ Built_ /\ call.op = "take" /\ call.a.kind = "mutref" /\ call.p.n = 2
    /\ Len(out) = 3
    /\ Len(Remaining(st0.c)) = 3
    /\ Len(Remaining(st.c)) = 1

(* The documentation's chain([1, 2, 3], &mut range) with range = 0..10 *)
DocChain ==
    Call("chain", ArraySrc(<<1, 2, 3>>),
         MutRefSrc("d", Cursor([k \in 1..10 |-> Some(k - 1)], TRUE)), NoParam)

(* The answers still to come from a range start..end *)
RangeScript(start, end) == [k \in 1..(end - start) |-> Some(start + k - 1)]

(* C3: for chain(a, &mut b) with a and b finite sequences, a of n elements, after *)
(* k elements have been requested of the chain (next() requests one,       *)
(* nth(m) requests m + 1) b has been advanced by max(0, k - n), capped at  *)
(* what b holds, so b is not advanced while a still has elements.  For     *)
(* chain([1, 2, 3], &mut (0..10)) the range is 2..10 after 5 elements and  *)
(* 3..10 after nth(5).                                                     *)
C3_ChainAdvancesSecond ==
    (Built_ /\ call.op = "chain" /\ call.b.kind = "mutref"
        /\ Finite(call.a) /\ Finite(call.b)) =>
        /\ Advanced("d") = Min(Max(0, Pulled - Len(Script(call.a))), Len(Script(call.b)))
        /\ st.d.back = st0.d.back
        /\ (call = DocChain /\ Pulled = 5) => Remaining(st.d) = RangeScript(2, 10)
        /\ (call = DocChain /\ drv = <<[call |-> "nth", n |-> 5]>>) =>
                Remaining(st.d) = RangeScript(3, 10)

C3_Witness ==
    /\ Built_ /\ call.op = "chain" /\ call = DocChain
    /\ drv = <<[call |-> "nth", n |-> 5]>>
    /\ out = <<Some(2)>>
    /\ Remaining(st.d) = RangeScript(3, 10)

(* C4: for a finite double-ended source s of n elements, rev(s) yields     *)
(* s[n-1], ..., s[0] and then ends, and rev(s).enumerate() yields the      *)
(* pairs (i, s[n-1-i]); for [1, 2, 3] every pair (i, j) has i = 3 - j.     *)
C4_RevReverses ==
    (Built_ /\ call.op \in {"rev", "rev_enumerate"} /\ Finite(call.a)) =>
        LET s == Script(call.a)
            n == Len(s)
        IN  /\ \A k \in 1..Len(out) :
                  out[k] = IF k > n THEN None
                           ELSE IF call.op = "rev" THEN s[n + 1 - k]
                           ELSE Some(<<k - 1, s[n + 1 - k].v>>)
            /\ (call.op = "rev_enumerate" /\ call.a = ArraySrc(<<1, 2, 3>>)) =>
                  \A k \in 1..Len(out) : out[k].some => out[k].v[1] = 3 - out[k].v[2]

C4_Witness ==
    /\ Built_ /\ call.op = "rev_enumerate" /\ call.a = ArraySrc(<<1, 2, 3>>)
    /\ out = <<Some(<<0, 3>>), Some(<<1, 2>>), Some(<<2, 1>>), None>>

(* C5: the call that builds the adapter consumes nothing: for a mutable    *)
(* reference given as the source (either argument of chain and zip), the   *)
(* caller's cursor is, right after the call and before the adapter is      *)
(* driven, where it was before the call.                                   *)
C5_ConstructionConsumesNothing ==
    (Built_ /\ drv = <<>>) => st = st0

C5_Witness ==
    /\ Built_ /\ drv = <<>>
    /\ call.op = "skip" /\ call.p.n = 2
    /\ call.a.kind = "mutref"
    /\ Len(Remaining(st.c)) = 3

(* C6, as the specification states it: once map_while has answered        *)
(* end-of-sequence, every later next() answers end-of-sequence too.        *)
C6_MapWhileStopsPermanently ==
    (Built_ /\ call.op = "map_while") =>
        \A j \in 1..Len(out) : \A k \in 1..Len(out) :
            (j < k /\ ~out[j].some) => ~out[k].some

(* C6, amended: map_while keeps no memory of having ended.  The k-th       *)
(* next() takes the k-th answer of the source and returns f of it:         *)
(* end-of-sequence exactly when the source answers end-of-sequence or f    *)
(* returns empty on that element.  So the values before the first          *)
(* end-of-sequence are f's values of the leading elements f accepts, and   *)
(* a later next() yields again when the source goes on with an element f   *)
(* accepts.                                                                *)
C6_MapWhileIsPerElement ==
    (Built_ /\ call.op = "map_while") =>
        LET s == Script(call.a)
        IN  /\ \A k \in 1..Len(out) :
                  out[k] = IF k <= Len(s) /\ s[k].some
                           THEN CallOptF(call.p.f, s[k].v) ELSE None
            /\ call.a.kind = "mutref" => Advanced("c") = Min(Len(out), Len(s))

C6_Witness ==
    /\ Built_ /\ call.op = "map_while"
    /\ call.a.kind = "array" /\ call.a.items = <<1, 2, 1>>
    /\ call.p.f.set = {1}
    /\ out = <<Some(11), None, Some(11), None>>

(* C7: fuse(source) over any cursor, also one that answers end-of-sequence *)
(* and has elements after it: the fused cursor yields the source's leading *)
(* run of elements, up to the source's first end-of-sequence, and          *)
(* end-of-sequence on every later next(); the source is not advanced past  *)
(* its first end-of-sequence.                                              *)
C7_FuseStaysEnded ==
    (Built_ /\ call.op = "fuse") =>
        LET s == Script(call.a)
            e == FirstNone(s)
        IN  /\ \A k \in 1..Len(out) : out[k] = IF k < e THEN s[k] ELSE None
            /\ call.a.kind = "mutref" => Advanced("c") = Min(Len(out), Min(e, Len(s)))

C7_Witness ==
    /\ Built_ /\ call.op = "fuse" /\ call.a.kind = "mutref"
    /\ Script(call.a) = <<Some(1), None, Some(2)>>
    /\ out = <<Some(1), None, None, None>>
    /\ Remaining(st.c) = <<Some(2)>>

(* C8, as the specification states it: for every duplicable source s of n  *)
(* elements cycle(s) never answers end-of-sequence, its i-th element being *)
(* s[i mod n].                                                             *)
C8_CycleNeverEnds ==
    (Built_ /\ call.op = "cycle" /\ Finite(call.a)) =>
        LET s == Script(call.a)
            n == Len(s)
        IN  \A k \in 1..Len(out) :
                /\ out[k].some
                /\ n > 0 => out[k] = s[((k - 1) % n) + 1]

(* C8, amended: for every duplicable source s of n >= 1 elements cycle(s)  *)
(* never answers end-of-sequence and its i-th element (from 0) is          *)
(* s[i mod n]; for [1, 2] the first five are 1, 2, 1, 2, 1.  Over an empty *)
(* source cycle answers end-of-sequence at once.                           *)
C8_CycleRepeatsNonEmpty ==
    (Built_ /\ call.op = "cycle" /\ Finite(call.a)) =>
        LET s == Script(call.a)
            n == Len(s)
        IN  /\ n >= 1 => \A k \in 1..Len(out) : out[k] = s[((k - 1) % n) + 1]
            /\ n = 0 => \A k \in 1..Len(out) : out[k] = None
            /\ (call.a = ArraySrc(<<1, 2>>) /\ Len(out) = 5) =>
                  out = <<Some(1), Some(2), Some(1), Some(2), Some(1)>>

C8_Witness ==
    /\ Built_ /\ call.op = "cycle" /\ call.a = ArraySrc(<<1, 2>>)
    /\ out = <<Some(1), Some(2), Some(1), Some(2), Some(1)>>

(* C9: for finite sources a and b, zip(a, b) yields exactly                *)
(* min(len a, len b) pairs, the i-th being (a[i], b[i]), and then ends;    *)
(* zip([1, 2, 3], [4, 5]) yields (1, 4), (2, 5).                           *)
C9_ZipStopsAtShorter ==
    (Built_ /\ call.op = "zip" /\ Finite(call.a) /\ Finite(call.b)) =>
        LET a == Script(call.a)
            b == Script(call.b)
        IN  /\ \A k \in 1..Len(out) :
                  out[k] = IF k <= Min(Len(a), Len(b)) THEN Some(<<a[k].v, b[k].v>>)
                           ELSE None
            /\ (call.a = ArraySrc(<<1, 2, 3>>) /\ call.b = ArraySrc(<<4, 5>>)
                  /\ Len(out) >= 3) =>
                  SubSeq(out, 1, 3) = <<Some(<<1, 4>>), Some(<<2, 5>>), None>>

C9_Witness ==
    /\ Built_ /\ call.op = "zip"
    /\ call.a = ArraySrc(<<1, 2, 3>>) /\ call.b = ArraySrc(<<4, 5>>)
    /\ out = <<Some(<<1, 4>>), Some(<<2, 5>>), None>>

(* Index of the first element of the finite script s that fails the        *)
(* predicate, 0 if there is none                                           *)
FirstFailing(f, s) ==
    IF \E k \in 1..Len(s) : ~CallPred(f, s[k].v)
    THEN CHOOSE k \in 1..Len(s) :
            ~CallPred(f, s[k].v) /\ \A j \in 1..(k - 1) : CallPred(f, s[j].v)
    ELSE 0

(* C10: take_while(&mut c, pred), c holding e0, e1, .. and ej the first    *)
(* element that fails pred (the j-th counting from 1 below): the adapter   *)
(* yields the elements before ej and then ends; c is advanced by one per   *)
(* element yielded and by one more for ej, which is consumed, not yielded, *)
(* and not left in c; next() on the ended adapter advances c no further.   *)
C10_TakeWhileConsumesFailing ==
    (Built_ /\ call.op = "take_while" /\ call.a.kind = "mutref" /\ Finite(call.a)
        /\ FirstFailing(call.p.f, Script(call.a)) > 0) =>
        LET s == Script(call.a)
            j == FirstFailing(call.p.f, s)
        IN  /\ \A k \in 1..Len(out) : out[k] = IF k < j THEN s[k] ELSE None
            /\ Advanced("c") = Min(Len(out), j)
            /\ Len(out) >= j => Remaining(st.c) = SubSeq(s, j + 1, Len(s))

C10_Witness ==
    /\ Built_ /\ call.op = "take_while" /\ call.a.kind = "mutref"
    /\ Script(call.a) = <<Some(1), Some(2), Some(1)>>
    /\ call.p.f.set = {1}
    /\ out = <<Some(1), None, None>>
    /\ Remaining(st.c) = <<Some(1)>>

====
